---- MODULE Spec2Model ----
(***************************************************************************)
(* Model of src/components/FilterModal.tsx: the filter-selection and       *)
(* download-orchestration state machine of the FilterModal component.      *)
(*                                                                         *)
(* JavaScript runs each event handler and each promise continuation to     *)
(* completion, so user events are single actions.  The continuation of     *)
(* handleDownloadClick after the await is split into its statements        *)
(* (catch, setIsDownloading(false), onClose()); while it runs no user      *)
(* event and no other continuation is interleaved.                         *)
(***************************************************************************)
EXTENDS Naturals, Sequences, FiniteSets

\* ----------------------------------------------------------------- bounds
\* image.decade and image.url are drawn from 1..MaxImage
MaxImage == 2
\* cap on the number of onDownload invocations recorded in one session
MaxCalls == 2

\* ---------------------------------------------------------------- catalog
FILTERS ==
  << [name |-> "Original",  css |-> "none"],
     [name |-> "Sepia",     css |-> "sepia(0.8)"],
     [name |-> "Grayscale", css |-> "grayscale(1)"],
     [name |-> "Vintage",   css |-> "sepia(0.5) contrast(1.1) brightness(0.9) saturate(1.2)"],
     [name |-> "Cold",      css |-> "contrast(1.1) brightness(1.05) hue-rotate(-15deg)"],
     [name |-> "Warm",      css |-> "sepia(0.3) saturate(1.4) hue-rotate(-10deg) contrast(0.95)"] >>

Catalog == { FILTERS[i] : i \in 1..Len(FILTERS) }

VARIABLES
  image,           \* props.image: [decade, url], fixed for the presentation
  selectedFilter,  \* useState<Filter>
  isDownloading,   \* useState(false)
  mounted,         \* the owner still presents the modal
  closeCount,      \* number of invocations of props.onClose
  calls,           \* invocations of props.onDownload, in order, each with
                   \* the position of its handleDownloadClick activation
  consoleErrors,   \* number of console.error reports
  unhandled,       \* a rejection escaped handleDownloadClick
  lastEvent,       \* the last event processed
  lastOption,      \* index of the last option button clicked, 0 if none
  catalog          \* the module-level FILTERS array (a mutable JS array)

vars == << image, selectedFilter, isDownloading, mounted, closeCount,
           calls, consoleErrors, unhandled, lastEvent, lastOption, catalog >>

Images == [decade : 1..MaxImage, url : 1..MaxImage]

\* ------------------------------------------------------------ derived state
CallIds == 1..Len(calls)

\* onDownload invocations whose promise has not settled
InFlight == { i \in CallIds : calls[i].pc = "awaiting" }

\* a continuation of handleDownloadClick is between its resumption and its end
Running == \E i \in CallIds : calls[i].pc \in {"catch", "finally", "close"}

SetPc(i, p) == [calls EXCEPT ![i].pc = p]

\* --------------------------------------------------------------- callbacks
\* setSelectedFilter
SetSelectedFilter(f) == selectedFilter' = f

\* setIsDownloading
SetIsDownloading(b) == isDownloading' = b

\* props.onClose: the owner records the signal and tears the modal down
OnClose ==
  /\ closeCount' = closeCount + 1
  /\ mounted' = FALSE

\* ------------------------------------------------------------------- Init
\* an initialiser that takes the wrong catalog entry
InitialFilterSecond == FILTERS[2]

\* useState<Filter>(FILTERS[0])
InitialFilter == FILTERS[1]

Init ==
  /\ image \in Images
  /\ selectedFilter = InitialFilter
  /\ isDownloading = FALSE
  /\ mounted = TRUE
  /\ closeCount = 0
  /\ calls = << >>
  /\ consoleErrors = 0
  /\ unhandled = FALSE
  /\ lastEvent = "init"
  /\ lastOption = 0
  /\ catalog = FILTERS

\* ----------------------------------------------------------------- render
\* aria-pressed={selectedFilter.name === filter.name} of the i-th option
AriaPressed(i) == selectedFilter.name = catalog[i].name

\* a preview that keeps the style of the first render
PreviewStyleFilterStale == InitialFilter.css

\* style={{ filter: selectedFilter.css }} of the preview image
PreviewStyleFilter == selectedFilter.css

\* ------------------------------------------------------------ user events
\* a user event is dispatched only to a mounted modal, between handler runs
UserEventPossible == mounted /\ ~Running

\* the filter handed to setSelectedFilter by the i-th option button
ClickedFilterForeign(i) == [name |-> FILTERS[i].name, css |-> "custom"]

ClickedFilter(i) == catalog[i]

\* an option handler that also clears the busy flag
FilterButtonClickResetsFlag(i) ==
  /\ UserEventPossible
  /\ SetSelectedFilter(ClickedFilter(i))
  /\ SetIsDownloading(FALSE)
  /\ lastEvent' = "select"
  /\ lastOption' = i
  /\ UNCHANGED << catalog, image, mounted, closeCount, calls,
                  consoleErrors, unhandled >>

\* an option handler that deselects the option when it is already active
FilterButtonClickToggle(i) ==
  /\ UserEventPossible
  /\ SetSelectedFilter(IF selectedFilter.name = catalog[i].name
                         THEN catalog[1] ELSE ClickedFilter(i))
  /\ lastEvent' = "select"
  /\ lastOption' = i
  /\ UNCHANGED << catalog, image, isDownloading, mounted, closeCount, calls,
                  consoleErrors, unhandled >>

\* an option handler that moves the chosen entry to the front of FILTERS
FilterButtonClickReorders(i) ==
  /\ UserEventPossible
  /\ SetSelectedFilter(ClickedFilter(i))
  /\ catalog' = << catalog[i] >> \o SubSeq(catalog, 1, i - 1)
                                \o SubSeq(catalog, i + 1, Len(catalog))
  /\ lastEvent' = "select"
  /\ lastOption' = i
  /\ UNCHANGED << image, isDownloading, mounted, closeCount, calls,
                  consoleErrors, unhandled >>

\* onClick={() => setSelectedFilter(filter)}
FilterButtonClick(i) ==
  /\ UserEventPossible
  /\ SetSelectedFilter(ClickedFilter(i))
  /\ lastEvent' = "select"
  /\ lastOption' = i
  /\ UNCHANGED << catalog, image, isDownloading, mounted, closeCount, calls,
                  consoleErrors, unhandled >>

\* a Cancel button that is disabled while the export runs
CancelClickGated ==
  /\ UserEventPossible
  /\ ~isDownloading
  /\ OnClose
  /\ lastEvent' = "cancel"
  /\ UNCHANGED << lastOption, catalog, image, selectedFilter, isDownloading,
                  calls, consoleErrors, unhandled >>

\* Cancel button: onClick={onClose}; the inner panel stops propagation
CancelClick ==
  /\ UserEventPossible
  /\ OnClose
  /\ lastEvent' = "cancel"
  /\ UNCHANGED << lastOption, catalog, image, selectedFilter, isDownloading, calls,
                  consoleErrors, unhandled >>

\* backdrop: onClick={onClose}
BackdropClick ==
  /\ UserEventPossible
  /\ OnClose
  /\ lastEvent' = "backdrop"
  /\ UNCHANGED << lastOption, catalog, image, selectedFilter, isDownloading, calls,
                  consoleErrors, unhandled >>

\* disabled={isDownloading}
DownloadDisabledNever == FALSE

DownloadDisabled == isDownloading

\* the arguments of onDownload(image.decade, image.url, selectedFilter.css)
OnDownloadArgsDefault ==
  [decade |-> image.decade, url |-> image.url, css |-> FILTERS[1].css]

OnDownloadArgs ==
  [decade |-> image.decade, url |-> image.url, css |-> selectedFilter.css]

\* handleDownloadClick up to the await
HandleDownloadClick ==
  /\ Len(calls) < MaxCalls
  /\ SetIsDownloading(TRUE)
  /\ calls' = Append(calls, [args |-> OnDownloadArgs, pc |-> "awaiting",
                             outcome |-> "pending"])
  /\ UNCHANGED << lastOption, catalog, image, selectedFilter, mounted, closeCount,
                  consoleErrors, unhandled >>

\* click on the enabled Download button
DownloadClick ==
  /\ UserEventPossible
  /\ ~DownloadDisabled
  /\ HandleDownloadClick
  /\ lastEvent' = "download"

\* click on the disabled Download button: no handler is dispatched
DownloadClickDisabled ==
  /\ UserEventPossible
  /\ DownloadDisabled
  /\ lastEvent' = "downloadDisabled"
  /\ UNCHANGED << lastOption, catalog, image, selectedFilter, isDownloading, mounted, closeCount,
                  calls, consoleErrors, unhandled >>

\* ------------------------------------------- the export settles and resumes
\* the promise of onDownload resolves: the try block ends, finally is next
ExportResolve(i) ==
  /\ ~Running
  /\ calls[i].pc = "awaiting"
  /\ calls' = [calls EXCEPT ![i].pc = "finally", ![i].outcome = "resolved"]
  /\ lastEvent' = "resolve"
  /\ UNCHANGED << lastOption, catalog, image, selectedFilter, isDownloading, mounted, closeCount,
                  consoleErrors, unhandled >>

\* the promise of onDownload rejects: the catch block is next
ExportReject(i) ==
  /\ ~Running
  /\ calls[i].pc = "awaiting"
  /\ calls' = [calls EXCEPT ![i].pc = "catch", ![i].outcome = "rejected"]
  /\ lastEvent' = "reject"
  /\ UNCHANGED << lastOption, catalog, image, selectedFilter, isDownloading, mounted, closeCount,
                  consoleErrors, unhandled >>

\* a handler without the catch block: the rejection escapes after finally
CatchBlockMissing(i) ==
  /\ calls[i].pc = "catch"
  /\ unhandled' = TRUE
  /\ calls' = SetPc(i, "finally")
  /\ lastEvent' = "catch"
  /\ UNCHANGED << lastOption, catalog, image, selectedFilter, isDownloading, mounted, closeCount,
                  consoleErrors >>

\* catch (e) { console.error("Download failed from modal:", e); }
CatchBlock(i) ==
  /\ calls[i].pc = "catch"
  /\ consoleErrors' = consoleErrors + 1
  /\ calls' = SetPc(i, "finally")
  /\ lastEvent' = "catch"
  /\ UNCHANGED << lastOption, catalog, image, selectedFilter, isDownloading, mounted, closeCount,
                  unhandled >>

\* a finally block that forgets the reset
FinallyResetMissing(i) ==
  /\ calls[i].pc = "finally"
  /\ calls' = SetPc(i, "close")
  /\ lastEvent' = "reset"
  /\ UNCHANGED << lastOption, catalog, image, selectedFilter, isDownloading, mounted, closeCount,
                  consoleErrors, unhandled >>

\* a finally block that also puts the selection back to the default
FinallyResetAll(i) ==
  /\ calls[i].pc = "finally"
  /\ SetIsDownloading(FALSE)
  /\ SetSelectedFilter(InitialFilter)
  /\ calls' = SetPc(i, "close")
  /\ lastEvent' = "reset"
  /\ UNCHANGED << lastOption, catalog, image, mounted, closeCount,
                  consoleErrors, unhandled >>

\* finally { setIsDownloading(false);
FinallyReset(i) ==
  /\ calls[i].pc = "finally"
  /\ SetIsDownloading(FALSE)
  /\ calls' = SetPc(i, "close")
  /\ lastEvent' = "reset"
  /\ UNCHANGED << lastOption, catalog, image, selectedFilter, mounted, closeCount,
                  consoleErrors, unhandled >>

\* a finally block that does not close the modal
FinallyCloseMissing(i) ==
  /\ calls[i].pc = "close"
  /\ calls' = SetPc(i, "done")
  /\ lastEvent' = "close"
  /\ UNCHANGED << lastOption, catalog, image, selectedFilter, isDownloading, mounted, closeCount,
                  consoleErrors, unhandled >>

\*           onClose(); }
FinallyClose(i) ==
  /\ calls[i].pc = "close"
  /\ OnClose
  /\ calls' = SetPc(i, "done")
  /\ lastEvent' = "close"
  /\ UNCHANGED << lastOption, catalog, image, selectedFilter, isDownloading,
                  consoleErrors, unhandled >>

\* ------------------------------------------------------------------- Next
Next ==
  \/ \E i \in 1..Len(catalog) : FilterButtonClick(i)
  \/ CancelClick
  \/ BackdropClick
  \/ DownloadClick
  \/ DownloadClickDisabled
  \/ \E i \in CallIds : ExportResolve(i)
  \/ \E i \in CallIds : ExportReject(i)
  \/ \E i \in CallIds : CatchBlock(i)
  \/ \E i \in CallIds : FinallyReset(i)
  \/ \E i \in CallIds : FinallyClose(i)

Spec == Init /\ [][Next]_vars

\* The export collaborator is assumed to settle its promise, and a resumed
\* continuation runs through catch and finally to its end without yielding.
FairSpec ==
  /\ Spec
  /\ WF_vars(\E i \in CallIds : ExportResolve(i) \/ ExportReject(i))
  /\ WF_vars(\E i \in CallIds : CatchBlock(i))
  /\ WF_vars(\E i \in CallIds : FinallyReset(i))
  /\ WF_vars(\E i \in CallIds : FinallyClose(i))

TypeOK ==
  /\ image \in Images
  /\ isDownloading \in BOOLEAN
  /\ mounted \in BOOLEAN
  /\ closeCount \in Nat
  /\ consoleErrors \in Nat
  /\ unhandled \in BOOLEAN
  /\ Len(calls) <= MaxCalls
  /\ lastOption \in 0..Len(catalog)

\* ----------------------------------------------------------------- claims

\* C1: mutual exclusion of exports.  In every reachable state at most one
\* onDownload invocation is in flight, and a click on the Download button
\* that arrives while isDownloading is true does not invoke onDownload.
C1_MutualExclusion ==
  /\ [](Cardinality(InFlight) <= 1)
  /\ [][(isDownloading /\ lastEvent' \in {"download", "downloadDisabled"})
          => calls' = calls]_vars

\* a Download click was rejected while one export is in flight
C1_Witness ==
  /\ lastEvent = "downloadDisabled"
  /\ Cardinality(InFlight) = 1

\* C2: the closure signal fires at most once per session, whatever the
\* sequence of user events and the export outcome; a cancel during an
\* in-flight export followed by the export settling gives no second signal.
C2_CloseAtMostOnce == closeCount <= 1

\* C3: cleanup invariant (P5).  Once handleDownloadClick has settled, for
\* either outcome, isDownloading is false and onClose has fired exactly once.
C3_CleanupExactlyOnce ==
  \A i \in CallIds :
    calls[i].pc = "done" => (~isDownloading /\ closeCount = 1)

\* C4: snapshot semantics (P6).  The arguments handed to onDownload are the
\* image context and the css of the filter selected at the moment of the
\* click, and no later step (in particular no later selection) changes the
\* arguments recorded for an invocation.
C4_Snapshot ==
  [][ /\ Len(calls') > Len(calls) =>
           calls'[Len(calls')].args =
             [decade |-> image.decade, url |-> image.url,
              css |-> selectedFilter.css]
      /\ \A i \in CallIds :
           i \in 1..Len(calls') /\ calls'[i].args = calls[i].args ]_vars

\* a selection made during the in-flight export differs from its snapshot
C4_Witness ==
  /\ lastEvent = "select"
  /\ \E i \in InFlight :
       /\ calls[i].args.css # selectedFilter.css
       /\ calls[i].args.css # FILTERS[1].css

\* C5: export failure is contained.  No rejection escapes the handler, every
\* rejection that reached the catch block is reported with console.error,
\* and a finished attempt leaves isDownloading false with the closure
\* signalled, whether the export resolved or rejected.
C5_FailureContained ==
  /\ ~unhandled
  /\ consoleErrors =
       Cardinality({ i \in CallIds : calls[i].outcome = "rejected"
                                     /\ calls[i].pc # "catch" })
  /\ \A i \in CallIds :
       calls[i].pc = "done" => (~isDownloading /\ closeCount >= 1)

\* a rejected export whose handler ran to its end
C5_Witness ==
  \E i \in CallIds :
    /\ calls[i].pc = "done"
    /\ calls[i].outcome = "rejected"
    /\ consoleErrors = 1

\* C6: isDownloading tracks the export.  In every state in which no resumed
\* continuation stands before its setIsDownloading(false), isDownloading is
\* true exactly when an onDownload invocation has not settled.
C6_FlagTracksExport ==
  (\A i \in CallIds : calls[i].pc \notin {"catch", "finally"})
    => (isDownloading <=> InFlight # {})

\* the flag has gone up and down again around one export
C6_Witness ==
  /\ ~isDownloading
  /\ \E i \in CallIds : calls[i].pc \in {"close", "done"}

\* C7: Closed is terminal.  Once onClose has fired, no later step changes
\* selectedFilter or isDownloading, invokes onDownload or fires onClose
\* again, the continuation of an export still in flight included.
C7_ClosedTerminal ==
  [][closeCount >= 1 =>
       /\ selectedFilter' = selectedFilter
       /\ isDownloading' = isDownloading
       /\ closeCount' = closeCount
       /\ Len(calls') = Len(calls)]_vars

\* C8: one attempt per session.  onDownload is invoked at most once in a
\* session, and a finished attempt has closed the modal, so no retry follows.
C8_OneAttempt ==
  /\ Len(calls) <= 1
  /\ \A i \in CallIds :
       calls[i].pc = "done" => (closeCount >= 1 /\ ~mounted)

\* the single attempt has finished and the Download button is not offered
C8_Witness ==
  /\ Len(calls) = 1
  /\ calls[1].pc = "done"
  /\ ~isDownloading

\* C9: completion ordering.  The step in which the completion of an export
\* fires onClose starts from a state where isDownloading is already false,
\* and a handler that has reached or passed its onClose() has isDownloading
\* false.
C9_ResetBeforeClose ==
  /\ [](\A i \in CallIds :
          calls[i].pc \in {"close", "done"} => ~isDownloading)
  /\ [][\A i \in CallIds :
          (i \in 1..Len(calls') /\ calls[i].pc # "done"
             /\ calls'[i].pc = "done")
            => (~isDownloading /\ closeCount' = closeCount + 1)]_vars

\* the flag is reset and the completion's closure signal has not fired yet
C9_Witness ==
  /\ closeCount = 0
  /\ ~isDownloading
  /\ \E i \in CallIds : calls[i].pc = "close"

\* C10: catalog membership.  In every reachable state selectedFilter is one
\* of the entries of FILTERS.
C10_CatalogMembership == selectedFilter \in Catalog

\* a non-default filter survived a whole download attempt
C10_Witness ==
  /\ selectedFilter = FILTERS[Len(FILTERS)]
  /\ \E i \in CallIds : calls[i].pc = "done"

\* C11: selection isolation (P3).  A click on an option button, from an idle
\* or an exporting state, changes selectedFilter only: isDownloading stays,
\* onDownload is not invoked, no recorded invocation moves, onClose does not
\* fire and nothing is logged.
C11_SelectionIsolation ==
  [][lastEvent' = "select" =>
       /\ isDownloading' = isDownloading
       /\ calls' = calls
       /\ closeCount' = closeCount
       /\ mounted' = mounted
       /\ consoleErrors' = consoleErrors
       /\ unhandled' = unhandled]_vars

\* a selection made while an export is in flight left the flag up
C11_Witness ==
  /\ lastEvent = "select"
  /\ lastOption = 2
  /\ isDownloading
  /\ InFlight # {}
  /\ closeCount = 0

\* C13: default selection (P1).  Before any event is processed the session
\* has selectedFilter equal to the first catalog entry, whose name is
\* 'Original' and whose transform is 'none', and isDownloading false.
C13_DefaultSelection ==
  lastEvent = "init" =>
    /\ selectedFilter = catalog[1]
    /\ selectedFilter = [name |-> "Original", css |-> "none"]
    /\ ~isDownloading

\* the freshly initialised session
C13_Witness ==
  /\ lastEvent = "init"
  /\ lastOption = 0
  /\ calls = << >>
  /\ closeCount = 0
  /\ mounted

\* C14: selection idempotence (P2).  A click on option f directly after a
\* click on the same option f leaves the whole session state as the first
\* click left it, with selectedFilter equal to f.
C14_SelectionIdempotent ==
  [][(lastEvent = "select" /\ lastEvent' = "select"
        /\ lastOption' = lastOption) =>
       /\ selectedFilter' = catalog'[lastOption']
       /\ selectedFilter' = selectedFilter
       /\ isDownloading' = isDownloading
       /\ mounted' = mounted
       /\ closeCount' = closeCount
       /\ calls' = calls
       /\ consoleErrors' = consoleErrors
       /\ unhandled' = unhandled]_vars

\* option 3 was clicked and is active, so a second click on it is possible
C14_Witness ==
  /\ lastEvent = "select"
  /\ lastOption = 3
  /\ selectedFilter = catalog[3]
  /\ mounted

\* C16: download does not disturb selection.  Every step other than a click
\* on an option button (download click, settle, catch, finally, cancel,
\* backdrop) leaves selectedFilter unchanged.
C16_OnlySelectChangesFilter ==
  [][lastEvent' # "select" => selectedFilter' = selectedFilter]_vars

\* a whole attempt started by a cancel-free download kept a non-default filter
C16_Witness ==
  /\ lastEvent = "close"
  /\ closeCount = 1
  /\ selectedFilter = FILTERS[3]
  /\ \E i \in CallIds : calls[i].outcome = "rejected"

\* C15: catalog invariant.  In every reachable state FILTERS is the ordered
\* sequence it was at initialisation, its names are pairwise distinct and its
\* first entry is the identity transform 'none'.
C15_CatalogInvariant ==
  /\ catalog = FILTERS
  /\ \A i, j \in 1..Len(catalog) :
       catalog[i].name = catalog[j].name => i = j
  /\ catalog[1].css = "none"

\* the last option was chosen during an export and the table is as it was
C15_Witness ==
  /\ catalog = FILTERS
  /\ lastEvent = "select"
  /\ lastOption = Len(FILTERS)
  /\ isDownloading

\* C17: exactly one active option.  In every reachable state the test
\* selectedFilter.name === filter.name holds for exactly one entry of
\* FILTERS, and the style of the preview is that entry's css.
C17_ExactlyOneActive ==
  /\ Cardinality({ i \in 1..Len(catalog) : AriaPressed(i) }) = 1
  /\ \A i \in 1..Len(catalog) :
       AriaPressed(i) => PreviewStyleFilter = catalog[i].css

\* option 4 is the pressed one and the preview shows its css
C17_Witness ==
  /\ mounted
  /\ lastEvent = "select"
  /\ AriaPressed(4)
  /\ ~AriaPressed(1)
  /\ PreviewStyleFilter = FILTERS[4].css

\* C18: cancel is never gated by the export.  In every state of a presented
\* modal between two handler runs, also while isDownloading is true, the
\* Cancel click and the backdrop click are possible; each fires onClose once
\* and neither settles or removes an onDownload invocation nor changes
\* isDownloading.
C18_CancelNotGated ==
  /\ []((mounted /\ ~Running) =>
          (ENABLED CancelClick /\ ENABLED BackdropClick))
  /\ [][lastEvent' \in {"cancel", "backdrop"} =>
          /\ closeCount' = closeCount + 1
          /\ calls' = calls
          /\ isDownloading' = isDownloading]_vars

\* a cancel during the export: the signal fired, the export is still pending
C18_Witness ==
  /\ lastEvent = "cancel"
  /\ closeCount = 1
  /\ isDownloading
  /\ InFlight # {}

\* C12: guaranteed progress to closure.  If the export collaborator
\* eventually settles, every started export is eventually followed by a
\* state with isDownloading false and the closure signal fired; and as long
\* as no settle step happens an exporting session stays exporting, whatever
\* the user does (no timeout, no cancellation of the export).
C12_ProgressToClosure ==
  /\ (InFlight # {}) ~> (InFlight = {} /\ ~isDownloading /\ closeCount >= 1)
  /\ [][(InFlight # {} /\ lastEvent' \notin {"resolve", "reject"}) =>
          (InFlight' = InFlight /\ isDownloading')]_vars

\* a resolved export whose completion reset the flag and closed the modal
C12_Witness ==
  /\ lastEvent = "close"
  /\ closeCount = 1
  /\ ~isDownloading
  /\ \E i \in CallIds :
       calls[i].pc = "done" /\ calls[i].outcome = "resolved"

====
